---- MODULE Spec2Model ----
(***************************************************************************)
(* PySimiam: the parameter tree of the Qt parameter window                 *)
(* (gui/qt/paramwindow.py: ValueEntry, FloatEntry, BoolEntry, ChoiceEntry, *)
(* Group), its dock manager (DockManager with the ParamDocks it creates)   *)
(* and the Khepera3 supervisor (supervisors/khepera3.py: tick registers,   *)
(* estimate_pose, uni2diff, execute).                                      *)
(*                                                                         *)
(* Numbers.  Python floats are modelled by exact arithmetic on integers    *)
(* and fractions in lowest terms.  The wheel speeds of uni2diff are floats: *)
(* every operation is rounded to MantissaBits significant bits.  The pose  *)
(* of estimate_pose is exact, with sin and cos from a table, next to the   *)
(* float of its heading.                                                   *)
(* A spin box value is an integer number of sub-steps, Grain sub-steps     *)
(* making one display step of the QDoubleSpinBox (10^-decimals).           *)
(***************************************************************************)
EXTENDS Integers, Sequences, FiniteSets, TLC

VARIABLES
    contents,   \* ParamWidget.contents: the root Group (Contents) with its leafs
    record,     \* the Struct last handed out by Group.get_struct, or NoRecord
    plast,      \* the last call on the parameter tree: operation and outcome
    geom,       \* robot.wheels: radius, base_length, ticks_per_rev
    robot,      \* robot.wheels.left_ticks / right_ticks (the robot's encoders)
    ticks,      \* self.left_ticks / self.right_ticks (the supervisor's registers)
    pose_est,   \* self.pose_est
    hist,       \* bookkeeping: readings at construction, sum of the deltas taken
    slast,      \* the last call on the supervisor: operation, inputs and outcome
    docks,      \* DockManager.docks: name -> dock, 0 where the name has no dock
    docks_left, \* DockManager.docks_left: the docks of the left area, in order
    docks_right,\* DockManager.docks_right
    active_left,  \* DockManager.active_left: a dock, or 0 for None
    active_right, \* DockManager.active_right
    qdocks,     \* the ParamDock objects created so far, as Qt holds them
    dlast       \* the last call on the dock manager: operation and outcome

pvars == <<contents, record, plast>>
svars == <<geom, robot, ticks, pose_est, hist, slast>>
dvars == <<docks, docks_left, docks_right, active_left, active_right, qdocks, dlast>>
vars == <<contents, record, plast, geom, robot, ticks, pose_est, hist, slast,
          docks, docks_left, docks_right, active_left, active_right, qdocks, dlast>>

(***************************************************************************)
(* Bounds of the model                                                     *)
(***************************************************************************)
\* sub-steps per display step of a QDoubleSpinBox
Grain == 2
\* ui.min_value and ui.max_value of the float leaves, in display steps
FloatMin == 1
FloatMax == 3
\* most (key, value) pairs in one bulk update, nested pairs included
MaxPairs == 3
\* the largest wheel radius and wheel base of a robot, in length units
MaxRadius == 3
MaxLength == 2
\* encoder ticks per wheel revolution
TicksPerRev == 2
\* the encoders count up to MaxTicks, at most MaxStep ticks between two readings
MaxTicks == 2
MaxStep == 2
\* the largest commanded speed |v|, |w| of a unicycle command
MaxSpeed == 2
\* sin and cos are tabulated in units of 1/TrigScale
TrigScale == 100
\* bits in the significand of a floating-point number
MantissaBits == 3
\* most ParamDock objects created in one run
MaxDocks == 3

Abs(n) == IF n < 0 THEN -n ELSE n

(***************************************************************************)
(* The parameter tree                                                      *)
(***************************************************************************)
\* the options of the choice leaf (ui.value_list)
ValueList == <<"pid", "bang">>

\* the ui description the tree is built from: root {v, mode, gains {kp, on}}
UiDescr(v0, m0, kp0, on0) ==
    [contents |-> <<
        [type |-> "PFloat", name |-> "v", min_value |-> FloatMin * Grain,
         max_value |-> FloatMax * Grain, value |-> v0],
        [type |-> "PSelect", name |-> "mode", value_list |-> ValueList, value |-> m0],
        [type |-> "PGroup", name |-> "gains", contents |-> <<
            [type |-> "PFloat", name |-> "kp", min_value |-> FloatMin * Grain,
             max_value |-> FloatMax * Grain, value |-> kp0],
            [type |-> "PBool", name |-> "on", value |-> on0] >>] >>]

\* QDoubleSpinBox rounds a value to its decimals (a multiple of Grain sub-steps)
SpinBoxRound(v) == ((2 * v + Grain) \div (2 * Grain)) * Grain

\* QDoubleSpinBox.setValue: the value is rounded, then bounded to [minimum, maximum]
SpinBoxSetValue(e, v) ==
    LET r == SpinBoxRound(v)
    IN [e EXCEPT !.value = IF r < e.min THEN e.min ELSE IF r > e.max THEN e.max ELSE r]

\* position of x in the sequence s, 0 when absent (list.index raises ValueError then)
IndexOf(s, x) == IF \E i \in 1..Len(s) : s[i] = x
                 THEN CHOOSE i \in 1..Len(s) : s[i] = x /\ \A j \in 1..(i-1) : s[j] # x
                 ELSE 0

\* position of the key k in an ordered dict (a sequence of [name, entry]), 0 when absent
KeyIndex(leafs, k) == IF \E i \in 1..Len(leafs) : leafs[i].name = k
                      THEN CHOOSE i \in 1..Len(leafs) : leafs[i].name = k
                      ELSE 0

RECURSIVE NewEntry(_)
\* Group.__init__ and create_widgets: one entry per element of the description
NewGroup(ui_descr) ==
    [kind |-> "Group",
     leafs |-> [i \in 1..Len(ui_descr.contents) |->
                   [name |-> ui_descr.contents[i].name,
                    entry |-> NewEntry(ui_descr.contents[i])]]]

\* _class_map and the create_widgets of each entry class
NewEntry(element) ==
    CASE element.type = "PFloat" ->
            SpinBoxSetValue([kind |-> "FloatEntry", min |-> element.min_value,
                             max |-> element.max_value, value |-> element.min_value],
                            element.value)
      [] element.type = "PBool" -> [kind |-> "BoolEntry", checked |-> element.value]
      [] element.type = "PSelect" ->
            [kind |-> "ChoiceEntry", value_list |-> element.value_list,
             ui_value |-> element.value,
             radio |-> IndexOf(element.value_list, element.value)]
      [] element.type = "PGroup" -> NewGroup(element)

\* a ChoiceEntry.set_value that falls back on the first option, without an error,
\* when the value is none of the options
ChoiceEntry_set_value_first(e, value) ==
    LET i == IndexOf(e.value_list, value)
    IN [node |-> [e EXCEPT !.ui_value = value, !.radio = IF i = 0 THEN 1 ELSE i],
        err |-> "none"]

\* ChoiceEntry.set_value: ui.value is assigned first, value_list.index raises
\* ValueError for a value that is not listed, else the radio button is toggled
\* (a no-op on the checked button of the exclusive group)
ChoiceEntry_set_value(e, value) ==
    LET e1 == [e EXCEPT !.ui_value = value]
        i == IndexOf(e.value_list, value)
    IN IF i = 0
       THEN [node |-> e1, err |-> "ValueError"]
       ELSE [node |-> [e1 EXCEPT !.radio = i], err |-> "none"]

\* ValueEntry.set_value on a FloatEntry
ValueEntry_set_value(e, value) == [node |-> SpinBoxSetValue(e, value), err |-> "none"]

\* BoolEntry.set_value
BoolEntry_set_value(e, value) == [node |-> [e EXCEPT !.checked = value], err |-> "none"]

RECURSIVE Group_set_value(_, _)
\* leaf.set_value(v), dispatched on the class of the leaf
Entry_set_value(e, v) ==
    CASE e.kind = "FloatEntry" -> ValueEntry_set_value(e, v)
      [] e.kind = "BoolEntry" -> BoolEntry_set_value(e, v)
      [] e.kind = "ChoiceEntry" -> ChoiceEntry_set_value(e, v)
      [] e.kind = "Group" -> Group_set_value(e, v)

\* Group.set_value: the pairs are applied in order; the first failure ends the loop
Group_set_value(g, value) ==
    IF value = <<>> THEN [node |-> g, err |-> "none"]
    ELSE LET k == Head(value)[1]
             v == Head(value)[2]
             i == KeyIndex(g.leafs, k)
         IN IF i = 0 THEN [node |-> g, err |-> "KeyError"]
            ELSE LET r == Entry_set_value(g.leafs[i].entry, v)
                     g1 == [g EXCEPT !.leafs[i].entry = r.node]
                 IN IF r.err # "none" THEN [node |-> g1, err |-> r.err]
                    ELSE Group_set_value(g1, Tail(value))

\* ChoiceEntry.get_value as a bug would have it: the description's value, whatever
\* radio button is checked
ChoiceEntry_get_value_ui(e) == e.ui_value

\* ChoiceEntry.get_value
ChoiceEntry_get_value(e) == IF e.radio # 0 THEN e.value_list[e.radio] ELSE e.ui_value

RECURSIVE Group_get_value(_)
\* leaf.get_value(), dispatched on the class of the leaf
Entry_get_value(e) ==
    CASE e.kind = "FloatEntry" -> e.value
      [] e.kind = "BoolEntry" -> e.checked
      [] e.kind = "ChoiceEntry" -> ChoiceEntry_get_value(e)
      [] e.kind = "Group" -> Group_get_value(e)

\* Group.get_value: the list of (key, value) pairs in the order of leafs
Group_get_value(g) ==
    [i \in 1..Len(g.leafs) |-> <<g.leafs[i].name, Entry_get_value(g.leafs[i].entry)>>]

\* ValueEntry.get_struct for a leaf, Group.get_struct for a nested group
RECURSIVE Group_get_struct(_)
Entry_get_struct(e) ==
    IF e.kind = "Group" THEN Group_get_struct(e)
    ELSE [tag |-> "value", v |-> Entry_get_value(e)]

\* Group.get_struct as a bug would have it: p.__dict__[key] = leaf, the entry object
\* of the tree itself, in place of leaf.get_struct()
Group_get_struct_shared(g) ==
    [tag |-> "Struct",
     dict |-> [k \in {g.leafs[i].name : i \in 1..Len(g.leafs)} |->
                  [tag |-> "entry", path |-> <<k>>]]]

\* Group.get_struct: a new Struct with one attribute per leaf, nested groups as
\* new Structs of their own
Group_get_struct(g) ==
    [tag |-> "Struct",
     dict |-> [k \in {g.leafs[i].name : i \in 1..Len(g.leafs)} |->
                  Entry_get_struct(g.leafs[KeyIndex(g.leafs, k)].entry)]]

\* the entry object of the tree at a path of keys
RECURSIVE EntryAt(_, _)
EntryAt(e, path) ==
    IF path = <<>> THEN e
    ELSE EntryAt(e.leafs[KeyIndex(e.leafs, Head(path))].entry, Tail(path))

\* what reading a record gives: an attribute that refers to an entry object of the
\* tree reads that entry as it is now
RECURSIVE Read(_, _)
Read(field, root) ==
    CASE field.tag = "value" -> field
      [] field.tag = "Struct" ->
            [tag |-> "Struct",
             dict |-> [k \in DOMAIN field.dict |-> Read(field.dict[k], root)]]
      [] field.tag = "entry" -> Entry_get_struct(EntryAt(root, field.path))

\* the state a leaf entry holds, replaced by x
StoreInEntry(e, x) ==
    CASE e.kind = "FloatEntry" -> [e EXCEPT !.value = x]
      [] e.kind = "BoolEntry" -> [e EXCEPT !.checked = x]
      [] e.kind = "ChoiceEntry" -> [e EXCEPT !.ui_value = x, !.radio = IndexOf(e.value_list, x)]

\* Python attribute assignment rec.k = x, or rec.k1.k2 = x: it rebinds an attribute of
\* the object that holds it; when that object is an entry object of the tree, the tree
\* is what changes
WriteAttr(rec, root, path, x) ==
    IF Len(path) = 1
    THEN [record |-> [rec EXCEPT !.dict[path[1]] = [tag |-> "value", v |-> x]],
          contents |-> root]
    ELSE LET holder == rec.dict[path[1]]
         IN IF holder.tag = "Struct"
            THEN [record |-> [rec EXCEPT !.dict[path[1]].dict[path[2]] =
                                              [tag |-> "value", v |-> x]],
                  contents |-> root]
            ELSE LET i == KeyIndex(root.leafs, path[1])
                     j == KeyIndex(root.leafs[i].entry.leafs, path[2])
                 IN [record |-> rec,
                     contents |-> [root EXCEPT !.leafs[i].entry.leafs[j].entry =
                                                    StoreInEntry(@, x)]]

(***************************************************************************)
(* Inputs of the parameter tree                                            *)
(***************************************************************************)
NoRecord == [tag |-> "none"]

\* values offered to a float leaf: below the minimum, inside the range off the
\* display grid, the maximum itself, above the maximum
FloatInputs == {0, FloatMin * Grain + 1, FloatMax * Grain, FloatMax * Grain + Grain}
\* values offered to the choice leaf: its options and one that is none of them
ChoiceInputs == {"pid", "bang", "zigzag"}

\* (key, value) pairs for the root group and for the nested group; "bogus" is
\* a key neither accepts
SimplePairs == {<<"v", x>> : x \in FloatInputs} \cup {<<"mode", m>> : m \in ChoiceInputs}
                  \cup {<<"bogus", 0>>}
NestedPairs == {<<"kp", x>> : x \in FloatInputs} \cup {<<"on", b>> : b \in BOOLEAN}
                  \cup {<<"bogus", 0>>}

RECURSIVE NestedExact(_)
NestedExact(n) ==
    IF n = 0 THEN {<<>>}
    ELSE {<<p>> \o s : p \in NestedPairs, s \in NestedExact(n - 1)}

\* the update sequences for the root group that hold exactly c pairs in all
RECURSIVE TopExact(_)
TopExact(c) ==
    IF c = 0 THEN {<<>>}
    ELSE {<<p>> \o s : p \in SimplePairs, s \in TopExact(c - 1)}
         \cup UNION {{<< <<"gains", ns>> >> \o s : ns \in NestedExact(k),
                                                  s \in TopExact(c - 1 - k)}
                     : k \in 0..(c - 1)}

AllUpdates == UNION {TopExact(c) : c \in 0..MaxPairs}
\* updates of one leaf
SingleUpdates == {<<p>> : p \in SimplePairs}
                    \cup {<< <<"gains", <<q>> >> >> : q \in NestedPairs}

\* the attributes of a record and the values written to them
RecordWrites == {<< <<"v">>, x >> : x \in {FloatMax * Grain + Grain}}
                   \cup {<< <<"mode">>, m >> : m \in {"pid", "bang"}}
                   \cup {<< <<"gains", "kp">>, x >> : x \in {FloatMax * Grain + Grain}}
                   \cup {<< <<"gains", "on">>, b >> : b \in BOOLEAN}

(***************************************************************************)
(* Operations on the parameter tree                                        *)
(***************************************************************************)
\* the value of every variable of the supervisor while only the tree is exercised
IdlePose == [x |-> 0, y |-> 0, theta |-> 0, theta_f |-> [num |-> 0, den |-> 1]]
IdleWheels == [left_ticks |-> 0, right_ticks |-> 0]

\* contents.set_value(value): a bulk set
SetValue(value) ==
    \E r \in {Group_set_value(contents, value)} :
       /\ contents' = r.node
       /\ plast' = [op |-> "set_value", err |-> r.err, key |-> "", arg |-> Len(value)]
       /\ UNCHANGED record

\* contents.leafs[k].set_value(x): a set of one leaf of the root group
EntrySetValue(k, x) ==
    \E i \in {KeyIndex(contents.leafs, k)} \ {0} :
    \E r \in {Entry_set_value(contents.leafs[i].entry, x)} :
       /\ contents' = [contents EXCEPT !.leafs[i].entry = r.node]
       /\ plast' = [op |-> "entry_set_value", err |-> r.err, key |-> k, arg |-> x]
       /\ UNCHANGED record

\* contents.set_value(contents.get_value())
RoundTrip ==
    \E r \in {Group_set_value(contents, Group_get_value(contents))} :
       /\ contents' = r.node
       /\ plast' = [op |-> "round_trip", err |-> r.err, key |-> "", arg |-> 0]
       /\ UNCHANGED record

\* ParamWidget.set_parameters: Contents inherits set_value, get_value and
\* get_struct from Group and defines no set_parameters, so the call inside the
\* try raises AttributeError, which "except ValueError" lets through
ParamWidget_set_parameters(root, parameters) ==
    [node |-> root, err |-> "AttributeError"]

\* widget.set_parameters(parameters) with the update of one leaf
ParamWidgetSetParameters(k, x) ==
    \E r \in {ParamWidget_set_parameters(contents, << <<k, x>> >>)} :
       /\ contents' = r.node
       /\ plast' = [op |-> "set_parameters", err |-> r.err, key |-> k, arg |-> x]
       /\ UNCHANGED record

\* ParamWidget.apply_click: p = contents.get_struct(), handed to the receiver
GetStruct ==
    /\ record' = Group_get_struct(contents)
    /\ plast' = [op |-> "get_struct", err |-> "none", key |-> "", arg |-> 0]
    /\ UNCHANGED contents

\* the receiver assigns to an attribute of the record it was handed
ModifyRecord(path, x) ==
    /\ record # NoRecord
    /\ \E w \in {WriteAttr(record, contents, path, x)} :
       /\ record' = w.record
       /\ contents' = w.contents
       /\ plast' = [op |-> "modify_record", err |-> "none", key |-> "", arg |-> 0]

NextTree ==
    \/ \E value \in AllUpdates : SetValue(value) /\ UNCHANGED <<svars, dvars>>
    \/ \E p \in SimplePairs : EntrySetValue(p[1], p[2]) /\ UNCHANGED <<svars, dvars>>
    \/ RoundTrip /\ UNCHANGED <<svars, dvars>>
    \/ \E p \in SimplePairs : ParamWidgetSetParameters(p[1], p[2]) /\ UNCHANGED <<svars, dvars>>

NextSnapshot ==
    \/ \E value \in SingleUpdates : SetValue(value) /\ UNCHANGED <<svars, dvars>>
    \/ GetStruct /\ UNCHANGED <<svars, dvars>>
    \/ \E w \in RecordWrites : ModifyRecord(w[1], w[2]) /\ UNCHANGED <<svars, dvars>>

(***************************************************************************)
(* The Khepera3 supervisor                                                 *)
(*                                                                         *)
(* Units.  A length (x, y, dl, dr, dst) is an integer number of            *)
(* pi / (ticks_per_rev * TrigScale) length units, so m_per_tick =          *)
(* 2*pi*R/ticks_per_rev is the integer 2*R*TrigScale.  A heading is an     *)
(* integer number of pi / (2 * ticks_per_rev * |L|) radians, so            *)
(* theta_dt = (dr - dl)/L is the integer 2*(dr - dl)/TrigScale with the    *)
(* sign of L, a multiple of 4.                                             *)
(*                                                                         *)
(* A pose holds its heading twice: theta, the exact heading in heading     *)
(* units, which the trigonometric table reads, and theta_f, the heading in *)
(* radians as the floating-point operations of estimate_pose compute it.   *)
(***************************************************************************)
Sign(n) == IF n < 0 THEN -1 ELSE IF n > 0 THEN 1 ELSE 0

RECURSIVE GCD(_, _)
GCD(a, b) == IF b = 0 THEN a ELSE GCD(b, a % b)

\* the fraction n/d in lowest terms with a positive denominator (d # 0)
Frac(n, d) ==
    LET g == GCD(Abs(n), Abs(d))
    IN [num |-> Sign(d) * (n \div g), den |-> Abs(d) \div g]

RECURSIVE Pow2(_)
Pow2(n) == IF n = 0 THEN 1 ELSE 2 * Pow2(n - 1)

\* a/b to the nearest integer, a tie to the even one (a >= 0, b > 0)
RoundHalfEven(a, b) ==
    LET q == a \div b
        r == a % b
    IN IF 2 * r < b THEN q ELSE IF 2 * r > b THEN q + 1 ELSE q + (q % 2)

\* the significand m and exponent e of the floating-point number nearest to
\* (a/b) * 2^e0: m * 2^e with m of MantissaBits bits (a > 0, b > 0)
RECURSIVE FloatNorm(_, _, _)
FloatNorm(a, b, e) ==
    IF a >= Pow2(MantissaBits) * b THEN FloatNorm(a, 2 * b, e + 1)
    ELSE IF a < Pow2(MantissaBits - 1) * b THEN FloatNorm(2 * a, b, e - 1)
    ELSE [m |-> RoundHalfEven(a, b), e |-> e]

\* the floating-point number nearest to the fraction q: what a Python float holds
\* (the exponent is unbounded: neither overflow nor underflow)
Float(q) ==
    IF q.num = 0 THEN q
    ELSE LET n == FloatNorm(Abs(q.num), q.den, 0)
         IN IF n.e >= 0 THEN Frac(Sign(q.num) * n.m * Pow2(n.e), 1)
            ELSE Frac(Sign(q.num) * n.m, Pow2(-n.e))

\* the exact a * b, a + b, a - b and a / b of fractions
FracMul(a, b) == Frac(a.num * b.num, a.den * b.den)
FracAdd(a, b) == Frac(a.num * b.den + b.num * a.den, a.den * b.den)
FracSub(a, b) == Frac(a.num * b.den - b.num * a.den, a.den * b.den)
FracDiv(a, b) == Frac(a.num * b.den, a.den * b.num)
FracAbs(a) == [num |-> Abs(a.num), den |-> a.den]
FracLeq(a, b) == a.num * b.den <= b.num * a.den

\* Python's float a * b, a + b, a - b and a / b (b # 0): the exact result, rounded
Mul(a, b) == Float(FracMul(a, b))
Add(a, b) == Float(FracAdd(a, b))
Sub(a, b) == Float(FracSub(a, b))
Div(a, b) == Float(FracDiv(a, b))
\* the float of an integer
Num(n) == Float(Frac(n, 1))

\* a half turn and a quarter turn, in heading units
HalfTurn(g) == 2 * g.ticks_per_rev * Abs(g.base_length)
QuarterTurn(g) == g.ticks_per_rev * Abs(g.base_length)

\* math.sin and math.cos in units of 1/TrigScale (Bhaskara's approximation of the
\* sine of j half-turns/H, exact at 0, a quarter turn and a half turn)
Sine(k, g) ==
    LET H == HalfTurn(g)
        r == k % (2 * H)
        j == IF r <= H THEN r ELSE r - H
        b == (TrigScale * 16 * j * (H - j)) \div (5 * H * H - 4 * j * (H - j))
    IN IF r <= H THEN b ELSE -b
Cosine(k, g) == Sine(k + QuarterTurn(g), g)

\* estimate_pose, lines 96-97, as a bug would have them: the step alone, the
\* previous position left out
NewPositionStepOnly(x, x_dt) == x_dt

\* x_new = x + x_dt, y_new = y + y_dt
NewPosition(x, x_dt) == x + x_dt

\* math.pi, a float
PiFloat == Float(Frac(355, 113))

\* the float, in radians, of a heading of theta heading units (one radian per unit
\* where a base length of zero leaves the unit undefined)
Radians(theta, g) ==
    IF g.base_length = 0 THEN Num(theta)
    ELSE Float(FracDiv(FracMul(Frac(theta, 1), PiFloat), Frac(HalfTurn(g), 1)))

\* estimate_pose, line 95, as a bug would have it: the heading at the middle of the
\* step, theta_mid, is returned
NewHeadingMid(theta, theta_dt) == theta + theta_dt \div 2

\* theta_new = theta + theta_dt: no reduction modulo a full turn
NewHeading(theta, theta_dt) == theta + theta_dt

\* m_per_tick = (2*pi*R)/ticks_per_rev in floats
MetersPerTick(g) == Div(Mul(Mul(Num(2), PiFloat), Num(g.radius)), Num(g.ticks_per_rev))

\* self.left_ticks += dtl as a bug would have it: the register is set to the delta
SaveTicksDelta(reg, dt) == dt

\* self.left_ticks += dtl, self.right_ticks += dtr
SaveTicks(reg, dt) == reg + dt

\* K3Supervisor.estimate_pose: the registers it leaves, the pose it returns (err
\* "none") or the exception it raises
estimate_pose(rb, reg, pose, g) ==
    LET dtl == rb.left_ticks - reg.left
        dtr == rb.right_ticks - reg.right
        saved == [left |-> SaveTicks(reg.left, dtl), right |-> SaveTicks(reg.right, dtr)]
        R == g.radius
        L == g.base_length
        m_per_tick == 2 * R * TrigScale
        dl == dtl * m_per_tick
        dr == dtr * m_per_tick
        theta_dt == Sign(L) * ((2 * (dr - dl)) \div TrigScale)
        theta_mid == pose.theta + theta_dt \div 2
        dst == (dr + dl) \div 2
        x_dt == (dst * Cosine(theta_mid, g)) \div TrigScale
        y_dt == (dst * Sine(theta_mid, g)) \div TrigScale
        dl_f == Mul(Num(dtl), MetersPerTick(g))
        dr_f == Mul(Num(dtr), MetersPerTick(g))
        theta_dt_f == Div(Sub(dr_f, dl_f), Num(L))
    IN IF g.ticks_per_rev = 0 \/ L = 0
       THEN [ticks |-> saved, err |-> "ZeroDivisionError", pose |-> pose,
             dtl |-> dtl, dtr |-> dtr]
       ELSE [ticks |-> saved, err |-> "none",
             pose |-> [x |-> NewPosition(pose.x, x_dt), y |-> NewPosition(pose.y, y_dt),
                       theta |-> NewHeading(pose.theta, theta_dt),
                       theta_f |-> Add(pose.theta_f, theta_dt_f)],
             dtl |-> dtl, dtr |-> dtr]

NoWheels == [vl |-> Frac(0, 1), vr |-> Frac(0, 1)]

\* uni2diff as a bug would have it: vl = vr - base_length / radius, w left out
uni2diff_no_w(v, w, g) ==
    IF g.radius = 0 THEN [err |-> "ZeroDivisionError", wheels |-> NoWheels]
    ELSE LET L == Num(g.base_length)
             R == Num(g.radius)
             vr == Div(Div(Add(Mul(L, Num(w)), Mul(Num(2), Num(v))), Num(2)), R)
             vl == Sub(vr, Div(L, R))
         IN [err |-> "none", wheels |-> [vl |-> vl, vr |-> vr]]

\* uni2diff as a bug would have it: (L*w + 2*v)/2*R, multiplied by the radius
uni2diff_times_R(v, w, g) ==
    IF g.radius = 0 THEN [err |-> "ZeroDivisionError", wheels |-> NoWheels]
    ELSE LET L == Num(g.base_length)
             R == Num(g.radius)
             vr == Mul(Div(Add(Mul(L, Num(w)), Mul(Num(2), Num(v))), Num(2)), R)
             vl == Sub(vr, Div(Mul(L, Num(w)), R))
         IN [err |-> "none", wheels |-> [vl |-> vl, vr |-> vr]]

\* K3Supervisor.uni2diff, every operation a float operation in Python's order
uni2diff(v, w, g) ==
    IF g.radius = 0 THEN [err |-> "ZeroDivisionError", wheels |-> NoWheels]
    ELSE LET L == Num(g.base_length)
             R == Num(g.radius)
             vr == Div(Div(Add(Mul(L, Num(w)), Mul(Num(2), Num(v))), Num(2)), R)
             vl == Sub(vr, Div(Mul(L, Num(w)), R))
         IN [err |-> "none", wheels |-> [vl |-> vl, vr |-> vr]]

(***************************************************************************)
(* Inputs of the supervisor                                                *)
(***************************************************************************)
\* robot_info.wheels as the constructor accepts it: K3Supervisor.__init__ checks
\* neither the radius nor the base length
Geometries == [radius : (-1)..MaxRadius, base_length : (-1)..MaxLength,
               ticks_per_rev : {TicksPerRev}]
\* robot_pose at construction
InitialPoses == {[x |-> 0, y |-> 0, theta |-> 0], [x |-> 3 * TrigScale, y |-> -TrigScale, theta |-> 1]}
\* Pose(x, y, theta) of a robot with wheels g
Pose(p, g) == [x |-> p.x, y |-> p.y, theta |-> p.theta, theta_f |-> Radians(p.theta, g)]
\* the unicycle commands (v, w) of the controller
Speeds == (-MaxSpeed)..MaxSpeed
\* the commands a controller gives in execute
Commands == {<<0, 0>>, <<MaxSpeed, -1>>}

(***************************************************************************)
(* Operations on the supervisor                                            *)
(***************************************************************************)
\* the robot moves: its encoders count on
RobotMove(dl, dr) ==
    /\ robot.left_ticks + dl <= MaxTicks
    /\ robot.right_ticks + dr <= MaxTicks
    /\ dl + dr > 0
    /\ robot' = [left_ticks |-> robot.left_ticks + dl, right_ticks |-> robot.right_ticks + dr]
    /\ slast' = [slast EXCEPT !.op = "robot_move"]
    /\ UNCHANGED <<geom, ticks, pose_est, hist>>

\* a call of estimate_pose()
EstimatePose ==
    \E e \in {estimate_pose(robot, ticks, pose_est, geom)} :
       /\ ticks' = e.ticks
       /\ hist' = [hist EXCEPT !.sum_dtl = @ + e.dtl, !.sum_dtr = @ + e.dtr]
       /\ slast' = [op |-> "estimate_pose", err |-> e.err, dtl |-> e.dtl, dtr |-> e.dtr,
                    before |-> pose_est, pose |-> e.pose, v |-> 0, w |-> 0,
                    wheels |-> NoWheels]
       /\ UNCHANGED <<geom, robot, pose_est>>

\* a call of uni2diff((v, w))
Uni2Diff(v, w) ==
    \E u \in {uni2diff(v, w, geom)} :
       /\ slast' = [op |-> "uni2diff", err |-> u.err, dtl |-> 0, dtr |-> 0,
                    before |-> pose_est, pose |-> pose_est, v |-> v, w |-> w,
                    wheels |-> u.wheels]
       /\ UNCHANGED <<geom, robot, ticks, pose_est, hist>>

\* Supervisor.execute: the pose estimate is updated from estimate_pose() and the
\* controller gives the unicycle command (v, w)
Supervisor_execute(v, w) ==
    LET e == estimate_pose(robot, ticks, pose_est, geom)
    IN [ticks |-> e.ticks, err |-> e.err, pose |-> e.pose, dtl |-> e.dtl, dtr |-> e.dtr,
        pose_est |-> IF e.err = "none" THEN e.pose ELSE pose_est,
        output |-> <<v, w>>]

\* K3Supervisor.execute(robot_info, dt)
Execute(v, w) ==
    \E s \in {Supervisor_execute(v, w)} :
    \E u \in {uni2diff(s.output[1], s.output[2], geom)} :
       /\ ticks' = s.ticks
       /\ pose_est' = s.pose_est
       /\ hist' = [hist EXCEPT !.sum_dtl = @ + s.dtl, !.sum_dtr = @ + s.dtr]
       /\ slast' = [op |-> "execute",
                    err |-> IF s.err # "none" THEN s.err ELSE u.err,
                    dtl |-> s.dtl, dtr |-> s.dtr, before |-> pose_est, pose |-> s.pose,
                    v |-> v, w |-> w,
                    wheels |-> IF s.err # "none" THEN NoWheels ELSE u.wheels]
       /\ UNCHANGED <<geom, robot>>

NextSupervisor ==
    \/ \E dl \in 0..MaxStep, dr \in 0..MaxStep : RobotMove(dl, dr) /\ UNCHANGED <<pvars, dvars>>
    \/ EstimatePose /\ UNCHANGED <<pvars, dvars>>
    \/ \E c \in Commands : Execute(c[1], c[2]) /\ UNCHANGED <<pvars, dvars>>

NextOdometry ==
    \/ \E dl \in 0..MaxStep, dr \in 0..MaxStep : RobotMove(dl, dr) /\ UNCHANGED <<pvars, dvars>>
    \/ \E c \in Commands : Execute(c[1], c[2]) /\ UNCHANGED <<pvars, dvars>>

NextKinematics ==
    \E v \in Speeds, w \in Speeds : Uni2Diff(v, w) /\ UNCHANGED <<pvars, dvars>>

(***************************************************************************)
(* The dock manager                                                        *)
(*                                                                         *)
(* A dock is the number of a ParamDock object, 1..MaxDocks in the order of *)
(* creation.  qdocks[d] is what Qt holds of it: whether the object exists  *)
(* ("none", "live", "deleted" once deleteLater() has been called on it),   *)
(* whether it shows its collapsed panel, and where it is: "docked",        *)
(* "floating", or "landing" between the topLevelChanged(False) and the     *)
(* dockLocationChanged signals of one drop.                                *)
(***************************************************************************)
DockNames == {"a", "b"}
Sides == {"left", "right"}
NoDock == [state |-> "none", collapsed |-> FALSE, place |-> "docked"]
NoDocks == [n \in DockNames |-> 0]
NoQDocks == [d \in 1..MaxDocks |-> NoDock]

\* dock in dlist
InList(dock, dlist) == \E i \in 1..Len(dlist) : dlist[i] = dock

\* dlist.remove(dock): the first occurrence is taken out
ListRemove(dlist, dock) ==
    LET i == CHOOSE j \in 1..Len(dlist) :
                 dlist[j] = dock /\ \A k \in 1..(j - 1) : dlist[k] # dock
    IN SubSeq(dlist, 1, i - 1) \o SubSeq(dlist, i + 1, Len(dlist))

\* the docks that can send a signal: registered, alive in Qt
Senders == {d \in 1..MaxDocks : qdocks[d].state = "live" /\ \E n \in DockNames : docks[n] = d}
\* no drop is half-way between its two signals
NoSignalPending == \A d \in 1..MaxDocks : qdocks[d].place # "landing"

\* ParamDock.expand(bool_expand) / collapse(bool_collapse) on dock d
ParamDock_expand(q, d, bool_expand) == [q EXCEPT ![d].collapsed = ~bool_expand]

\* DockManager.add_dock(robot_id, name, parameters, side)
AddDock(name, side) ==
    /\ NoSignalPending
    /\ IF docks[name] # 0
       THEN \* the dock of that name is reset with the new parameters
            /\ dlast' = [op |-> "add_dock", err |-> "none", dock |-> docks[name]]
            /\ UNCHANGED <<docks, docks_left, docks_right, active_left, active_right, qdocks>>
       ELSE \E d \in 1..MaxDocks :
            /\ qdocks[d].state = "none"
            /\ \A k \in 1..(d - 1) : qdocks[k].state # "none"
            /\ docks' = [docks EXCEPT ![name] = d]
            /\ IF side = "left"
               THEN /\ active_left' = IF docks_left = <<>> THEN d ELSE active_left
                    /\ docks_left' = Append(docks_left, d)
                    /\ UNCHANGED <<docks_right, active_right>>
               ELSE /\ active_right' = IF docks_right = <<>> THEN d ELSE active_right
                    /\ docks_right' = Append(docks_right, d)
                    /\ UNCHANGED <<docks_left, active_left>>
            /\ qdocks' = [qdocks EXCEPT ![d] =
                            [state |-> "live",
                             collapsed |-> IF side = "left" THEN docks_left # <<>>
                                           ELSE docks_right # <<>>,
                             place |-> "docked"]]
            /\ dlast' = [op |-> "add_dock", err |-> "none", dock |-> d]

\* DockManager.remove_by_name(name): active_left and active_right are not looked at
RemoveByName(name) ==
    /\ NoSignalPending
    /\ IF docks[name] = 0
       THEN /\ dlast' = [op |-> "remove_by_name", err |-> "none", dock |-> 0]
            /\ UNCHANGED <<docks, docks_left, docks_right, active_left, active_right, qdocks>>
       ELSE LET old_dock == docks[name]
            IN /\ docks' = [docks EXCEPT ![name] = 0]
               /\ qdocks' = [qdocks EXCEPT ![old_dock].state = "deleted"]
               /\ IF InList(old_dock, docks_left)
                  THEN docks_left' = ListRemove(docks_left, old_dock) /\ UNCHANGED docks_right
                  ELSE IF InList(old_dock, docks_right)
                  THEN docks_right' = ListRemove(docks_right, old_dock) /\ UNCHANGED docks_left
                  ELSE UNCHANGED <<docks_left, docks_right>>
               /\ dlast' = [op |-> "remove_by_name", err |-> "none", dock |-> old_dock]
               /\ UNCHANGED <<active_left, active_right>>

\* DockManager.clear()
Clear ==
    /\ NoSignalPending
    /\ qdocks' = [d \in 1..MaxDocks |->
                    IF \E n \in DockNames : docks[n] = d
                    THEN [qdocks[d] EXCEPT !.state = "deleted"] ELSE qdocks[d]]
    /\ docks_left' = <<>>
    /\ active_left' = 0
    /\ docks_right' = <<>>
    /\ active_right' = 0
    /\ docks' = NoDocks
    /\ dlast' = [op |-> "clear", err |-> "none", dock |-> 0]

\* a call of a method of dock d: RuntimeError once Qt has deleted the object, else
\* AttributeError where d is None
CallOn(d) ==
    IF d = 0 THEN "AttributeError"
    ELSE IF qdocks[d].state = "deleted" THEN "RuntimeError" ELSE "none"

\* DockManager.dock_level_changed(tl), sent by dock: topLevelChanged
DockLevelChanged(dock, tl) ==
    /\ NoSignalPending
    /\ dock \in Senders
    /\ qdocks[dock].place = IF tl THEN "docked" ELSE "floating"
    /\ UNCHANGED docks
    /\ IF ~tl
       THEN \* already shown: the location change follows
            /\ qdocks' = [qdocks EXCEPT ![dock].place = "landing"]
            /\ dlast' = [op |-> "dock_level_changed", err |-> "none", dock |-> dock]
            /\ UNCHANGED <<docks_left, docks_right, active_left, active_right>>
       ELSE LET q1 == [ParamDock_expand(qdocks, dock, TRUE) EXCEPT ![dock].place = "floating"]
                left1 == IF InList(dock, docks_left)
                         THEN ListRemove(docks_left, dock) ELSE docks_left
                right1 == IF ~InList(dock, docks_left) /\ InList(dock, docks_right)
                          THEN ListRemove(docks_right, dock) ELSE docks_right
            IN IF ~InList(dock, docks_left) /\ ~InList(dock, docks_right)
               THEN /\ qdocks' = q1
                    /\ dlast' = [op |-> "dock_level_changed", err |-> "ValueError",
                                 dock |-> dock]
                    /\ UNCHANGED <<docks_left, docks_right, active_left, active_right>>
               ELSE /\ docks_left' = left1
                    /\ docks_right' = right1
                    /\ IF active_left = dock
                       THEN /\ active_left' = IF left1 # <<>> THEN left1[1] ELSE 0
                            /\ qdocks' = IF left1 # <<>> /\ CallOn(left1[1]) = "none"
                                         THEN ParamDock_expand(q1, left1[1], TRUE) ELSE q1
                            /\ dlast' = [op |-> "dock_level_changed",
                                         err |-> IF left1 # <<>> THEN CallOn(left1[1])
                                                 ELSE "none",
                                         dock |-> dock]
                            /\ UNCHANGED active_right
                       ELSE IF active_right = dock
                       THEN /\ active_right' = IF right1 # <<>> THEN right1[1] ELSE 0
                            /\ qdocks' = IF right1 # <<>> /\ CallOn(right1[1]) = "none"
                                         THEN ParamDock_expand(q1, right1[1], TRUE) ELSE q1
                            /\ dlast' = [op |-> "dock_level_changed",
                                         err |-> IF right1 # <<>> THEN CallOn(right1[1])
                                                 ELSE "none",
                                         dock |-> dock]
                            /\ UNCHANGED active_left
                       ELSE /\ qdocks' = q1
                            /\ dlast' = [op |-> "dock_level_changed", err |-> "none",
                                         dock |-> dock]
                            /\ UNCHANGED <<active_left, active_right>>

\* DockManager.dock_location_changed(loc), sent by dock: dockLocationChanged, which
\* follows topLevelChanged(False); a ParamDock allows the left and right areas only
DockLocationChanged(dock, loc) ==
    /\ dock \in Senders
    /\ qdocks[dock].place = "landing"
    /\ UNCHANGED docks
    /\ LET q1 == [qdocks EXCEPT ![dock].place = "docked"]
       IN IF loc = "left"
          THEN /\ docks_left' = Append(docks_left, dock)
               /\ IF active_left # 0 /\ CallOn(active_left) # "none"
                  THEN /\ qdocks' = q1
                       /\ dlast' = [op |-> "dock_location_changed",
                                    err |-> CallOn(active_left), dock |-> dock]
                       /\ UNCHANGED active_left
                  ELSE /\ qdocks' = IF active_left # 0
                                    THEN ParamDock_expand(q1, active_left, FALSE) ELSE q1
                       /\ active_left' = dock
                       /\ dlast' = [op |-> "dock_location_changed", err |-> "none",
                                    dock |-> dock]
               /\ UNCHANGED <<docks_right, active_right>>
          ELSE /\ docks_right' = Append(docks_right, dock)
               /\ IF active_right # 0 /\ CallOn(active_right) # "none"
                  THEN /\ qdocks' = q1
                       /\ dlast' = [op |-> "dock_location_changed",
                                    err |-> CallOn(active_right), dock |-> dock]
                       /\ UNCHANGED active_right
                  ELSE /\ qdocks' = IF active_right # 0
                                    THEN ParamDock_expand(q1, active_right, FALSE) ELSE q1
                       /\ active_right' = dock
                       /\ dlast' = [op |-> "dock_location_changed", err |-> "none",
                                    dock |-> dock]
               /\ UNCHANGED <<docks_left, active_left>>

\* DockManager.dock_user_expanded(), sent by dock: title_click
DockUserExpanded(dock) ==
    /\ NoSignalPending
    /\ dock \in Senders
    /\ UNCHANGED <<docks, docks_left, docks_right>>
    /\ IF ~qdocks[dock].collapsed
       THEN /\ dlast' = [op |-> "dock_user_expanded", err |-> "none", dock |-> dock]
            /\ UNCHANGED <<active_left, active_right, qdocks>>
       ELSE IF InList(dock, docks_left)
       THEN IF CallOn(active_left) # "none"
            THEN /\ dlast' = [op |-> "dock_user_expanded", err |-> CallOn(active_left),
                              dock |-> dock]
                 /\ UNCHANGED <<active_left, active_right, qdocks>>
            ELSE /\ qdocks' = ParamDock_expand(ParamDock_expand(qdocks, active_left, FALSE),
                                               dock, TRUE)
                 /\ active_left' = dock
                 /\ dlast' = [op |-> "dock_user_expanded", err |-> "none", dock |-> dock]
                 /\ UNCHANGED active_right
       ELSE IF InList(dock, docks_right)
       THEN IF CallOn(active_right) # "none"
            THEN /\ dlast' = [op |-> "dock_user_expanded", err |-> CallOn(active_right),
                              dock |-> dock]
                 /\ UNCHANGED <<active_left, active_right, qdocks>>
            ELSE /\ qdocks' = ParamDock_expand(ParamDock_expand(qdocks, active_right, FALSE),
                                               dock, TRUE)
                 /\ active_right' = dock
                 /\ dlast' = [op |-> "dock_user_expanded", err |-> "none", dock |-> dock]
                 /\ UNCHANGED active_left
       ELSE /\ dlast' = [op |-> "dock_user_expanded", err |-> "none", dock |-> dock]
            /\ UNCHANGED <<active_left, active_right, qdocks>>

NextDocks ==
    \/ \E n \in DockNames, side \in Sides : AddDock(n, side) /\ UNCHANGED <<pvars, svars>>
    \/ \E n \in DockNames : RemoveByName(n) /\ UNCHANGED <<pvars, svars>>
    \/ Clear /\ UNCHANGED <<pvars, svars>>
    \/ \E d \in 1..MaxDocks, tl \in BOOLEAN :
          DockLevelChanged(d, tl) /\ UNCHANGED <<pvars, svars>>
    \/ \E d \in 1..MaxDocks, loc \in Sides :
          DockLocationChanged(d, loc) /\ UNCHANGED <<pvars, svars>>
    \/ \E d \in 1..MaxDocks : DockUserExpanded(d) /\ UNCHANGED <<pvars, svars>>

(***************************************************************************)
(* Specifications                                                          *)
(***************************************************************************)
\* ParamWidget.__init__: the tree is built from its description; no supervisor call
InitTree ==
    /\ \E v0 \in FloatInputs, kp0 \in FloatInputs, on0 \in BOOLEAN,
          m0 \in {ValueList[i] : i \in 1..Len(ValueList)} :
            contents = NewGroup(UiDescr(v0, m0, kp0, on0))
    /\ record = NoRecord
    /\ plast = [op |-> "init", err |-> "none", key |-> "", arg |-> 0]
    /\ geom = [radius |-> 1, base_length |-> 1, ticks_per_rev |-> TicksPerRev]
    /\ robot = IdleWheels
    /\ ticks = [left |-> 0, right |-> 0]
    /\ pose_est = IdlePose
    /\ hist = [left0 |-> 0, right0 |-> 0, theta0 |-> 0, theta0_f |-> IdlePose.theta_f, sum_dtl |-> 0, sum_dtr |-> 0]
    /\ slast = [op |-> "init", err |-> "none", dtl |-> 0, dtr |-> 0,
                before |-> IdlePose, pose |-> IdlePose, v |-> 0, w |-> 0,
                wheels |-> NoWheels]
    /\ docks = NoDocks
    /\ docks_left = <<>>
    /\ docks_right = <<>>
    /\ active_left = 0
    /\ active_right = 0
    /\ qdocks = NoQDocks
    /\ dlast = [op |-> "init", err |-> "none", dock |-> 0]

\* K3Supervisor.__init__: the pose estimate is robot_pose, the registers are the
\* encoder readings of robot_info; no call on the parameter tree
InitSupervisor ==
    /\ geom \in Geometries
    /\ robot \in [left_ticks : 0..1, right_ticks : {0}]
    /\ ticks = [left |-> robot.left_ticks, right |-> robot.right_ticks]
    /\ pose_est \in {Pose(p, geom) : p \in InitialPoses}
    /\ hist = [left0 |-> robot.left_ticks, right0 |-> robot.right_ticks,
               theta0 |-> pose_est.theta, theta0_f |-> pose_est.theta_f,
               sum_dtl |-> 0, sum_dtr |-> 0]
    /\ slast = [op |-> "init", err |-> "none", dtl |-> 0, dtr |-> 0,
                before |-> pose_est, pose |-> pose_est, v |-> 0, w |-> 0,
                wheels |-> NoWheels]
    /\ contents = NewGroup(UiDescr(FloatMin * Grain, ValueList[1], FloatMin * Grain, FALSE))
    /\ record = NoRecord
    /\ plast = [op |-> "init", err |-> "none", key |-> "", arg |-> 0]
    /\ docks = NoDocks
    /\ docks_left = <<>>
    /\ docks_right = <<>>
    /\ active_left = 0
    /\ active_right = 0
    /\ qdocks = NoQDocks
    /\ dlast = [op |-> "init", err |-> "none", dock |-> 0]

\* DockManager.__init__: no dock, both areas empty; the tree and the supervisor idle
InitDocks ==
    /\ docks = NoDocks
    /\ docks_left = <<>>
    /\ docks_right = <<>>
    /\ active_left = 0
    /\ active_right = 0
    /\ qdocks = NoQDocks
    /\ dlast = [op |-> "init", err |-> "none", dock |-> 0]
    /\ contents = NewGroup(UiDescr(FloatMin * Grain, ValueList[1], FloatMin * Grain, FALSE))
    /\ record = NoRecord
    /\ plast = [op |-> "init", err |-> "none", key |-> "", arg |-> 0]
    /\ geom = [radius |-> 1, base_length |-> 1, ticks_per_rev |-> TicksPerRev]
    /\ robot = IdleWheels
    /\ ticks = [left |-> 0, right |-> 0]
    /\ pose_est = IdlePose
    /\ hist = [left0 |-> 0, right0 |-> 0, theta0 |-> 0, theta0_f |-> IdlePose.theta_f,
               sum_dtl |-> 0, sum_dtr |-> 0]
    /\ slast = [op |-> "init", err |-> "none", dtl |-> 0, dtr |-> 0,
                before |-> IdlePose, pose |-> IdlePose, v |-> 0, w |-> 0,
                wheels |-> NoWheels]

\* bulk and single sets of the parameter tree, and the round trip
SpecTree == InitTree /\ [][NextTree]_vars
\* records handed out by get_struct, written by their receiver, next to sets
SpecSnapshot == InitTree /\ [][NextSnapshot]_vars
\* the supervisor: odometry ticks
SpecSupervisor == InitSupervisor /\ [][NextSupervisor]_vars
\* the supervisor: odometry with every returned pose stored as the next estimate
SpecOdometry == InitSupervisor /\ [][NextOdometry]_vars
\* the dock manager: docks added, removed, floated, dropped and expanded
SpecDocks == InitDocks /\ [][NextDocks]_vars
\* the supervisor: wheel speeds of a unicycle command
SpecKinematics == InitSupervisor /\ [][NextKinematics]_vars

(***************************************************************************)
(* Properties                                                              *)
(***************************************************************************)
\* C1: a bulk set that meets an unknown key (KeyError) leaves every leaf of the tree
\* as it was before the call.
C1_BulkSetAtomic ==
    [][(plast'.op = "set_value" /\ plast'.err = "KeyError") => contents' = contents]_vars

\* C2: setting the float leaf v to a value above its maximum fails with an error and
\* leaves the leaf unchanged; setting it to exactly the maximum succeeds and stores
\* the maximum.
C2_AboveMaxRejected ==
    [][(plast'.op = "entry_set_value" /\ plast'.key = "v") =>
         /\ plast'.arg > EntryAt(contents, <<"v">>).max =>
                (plast'.err # "none" /\ contents' = contents)
         /\ plast'.arg = EntryAt(contents, <<"v">>).max =>
                (plast'.err = "none" /\ EntryAt(contents', <<"v">>).value = plast'.arg)]_vars

C4_SnapshotIndependent ==
    [][/\ plast'.op = "modify_record" => contents' = contents
       /\ (plast'.op = "set_value" /\ record # NoRecord) =>
              Read(record', contents') = Read(record, contents)]_vars

\* C4 witness: a record was handed out, written at depth one and two, and the tree was
\* set after that; record and tree differ in every written place.
C4_Witness ==
    /\ record # NoRecord
    /\ plast.op = "set_value"
    /\ plast.err = "none"
    /\ record.dict["v"] = [tag |-> "value", v |-> FloatMax * Grain + Grain]
    /\ record.dict["gains"].tag = "Struct"
    /\ record.dict["gains"].dict["on"].v # EntryAt(contents, <<"gains", "on">>).checked
    /\ record.dict["gains"].dict["kp"].v # EntryAt(contents, <<"gains", "kp">>).value

\* C5: with R > 0 and L > 0, an odometry update whose two tick deltas are zero
\* returns the previous pose estimate, in x, y and heading.
C5_ZeroDeltaKeepsPose ==
    (/\ slast.op \in {"estimate_pose", "execute"}
     /\ slast.err = "none"
     /\ slast.dtl = 0 /\ slast.dtr = 0
     /\ geom.radius > 0 /\ geom.base_length > 0)
    => slast.pose = slast.before

\* C5 witness: a zero-delta update of a pose estimate that earlier updates have moved
\* and turned.
C5_Witness ==
    /\ slast.op = "estimate_pose"
    /\ slast.err = "none"
    /\ slast.dtl = 0 /\ slast.dtr = 0
    /\ geom.radius > 0 /\ geom.base_length > 0
    /\ slast.before.theta # hist.theta0
    /\ slast.before.x # 0
    /\ slast.before.y # 0
    /\ hist.sum_dtl + hist.sum_dtr > 0

\* C6: after an odometry update the stored pose estimate is the pose the update
\* returned.
C6_EstimateStored ==
    (slast.op \in {"estimate_pose", "execute"} /\ geom.radius > 0 /\ geom.base_length > 0)
    => pose_est = slast.pose

\* C7: after every odometry update the tick registers are the encoder readings the
\* update used, and the deltas taken so far sum to the registers minus the readings
\* at construction.
C7_TicksSaved ==
    /\ slast.op \in {"estimate_pose", "execute"} =>
          (ticks.left = robot.left_ticks /\ ticks.right = robot.right_ticks)
    /\ hist.sum_dtl = ticks.left - hist.left0
    /\ hist.sum_dtr = ticks.right - hist.right0

\* C7 witness: the second of two updates that each took a left delta of one tick.
C7_Witness ==
    /\ slast.op = "estimate_pose"
    /\ slast.dtl = 1
    /\ hist.sum_dtl = 2
    /\ hist.sum_dtr > 0

\* C8, as claimed: with R > 0 and L > 0, uni2diff returns vr = (L*w + 2*v)/(2*R) and
\* vl = vr - L*w/R, and the pair is equal to the textbook pair vr = (2v + wL)/(2R),
\* vl = (2v - wL)/(2R).
C8_EqualsTextbook ==
    (slast.op = "uni2diff" /\ geom.radius > 0 /\ geom.base_length > 0) =>
        LET R == Num(geom.radius)
            L == Num(geom.base_length)
            v == Num(slast.v)
            w == Num(slast.w)
            vr == Div(Add(Mul(L, w), Mul(Num(2), v)), Mul(Num(2), R))
        IN /\ slast.err = "none"
           /\ slast.wheels.vr = vr
           /\ slast.wheels.vl = Sub(vr, Div(Mul(L, w), R))
           /\ slast.wheels.vr = Div(Add(Mul(Num(2), v), Mul(w, L)), Mul(Num(2), R))
           /\ slast.wheels.vl = Div(Sub(Mul(Num(2), v), Mul(w, L)), Mul(Num(2), R))

\* the rounding error allowed between a float result and the exact value: 8 units of
\* 2^-MantissaBits of (|L*w| + 2|v|)/(2R) + |L*w|/R
WithinRounding(x, exact, v, w, g) ==
    LET scale == FracAdd(Frac(Abs(g.base_length * w) + 2 * Abs(v), 2 * g.radius),
                         Frac(Abs(g.base_length * w), g.radius))
    IN FracLeq(FracAbs(FracSub(x, exact)),
               FracMul(Frac(8, Pow2(MantissaBits)), scale))

\* C8, amended: with R > 0 and L > 0, uni2diff returns the floats vr = (L*w + 2*v)/(2*R)
\* and vl = vr - L*w/R; vr is the float the textbook (2v + wL)/(2R) gives, and vl and
\* vr are the exact textbook values (2v - wL)/(2R) and (2v + wL)/(2R) up to rounding.
C8_Uni2DiffFormula ==
    (slast.op = "uni2diff" /\ geom.radius > 0 /\ geom.base_length > 0) =>
        LET R == Num(geom.radius)
            L == Num(geom.base_length)
            v == Num(slast.v)
            w == Num(slast.w)
            vr == Div(Add(Mul(L, w), Mul(Num(2), v)), Mul(Num(2), R))
        IN /\ slast.err = "none"
           /\ slast.wheels.vr = vr
           /\ slast.wheels.vl = Sub(vr, Div(Mul(L, w), R))
           /\ slast.wheels.vr = Div(Add(Mul(Num(2), v), Mul(w, L)), Mul(Num(2), R))
           /\ WithinRounding(slast.wheels.vr,
                             Frac(2 * slast.v + slast.w * geom.base_length, 2 * geom.radius),
                             slast.v, slast.w, geom)
           /\ WithinRounding(slast.wheels.vl,
                             Frac(2 * slast.v - slast.w * geom.base_length, 2 * geom.radius),
                             slast.v, slast.w, geom)

\* C8 witness: v = 1, w = 1 with R = 3, L = 1, where the returned vl is not the float
\* of the textbook (2v - wL)/(2R) = 1/6.
C8_Witness ==
    /\ slast.op = "uni2diff"
    /\ geom.radius = 3 /\ geom.base_length = 1
    /\ slast.v = 1 /\ slast.w = 1
    /\ slast.wheels.vr = Float(Frac(1, 2))
    /\ slast.wheels.vl # Float(Frac(1, 6))

\* C9: with R > 0, a command with w = 0 gives equal wheel speeds vl = vr = v/R,
\* whatever the wheel base L.
C9_StraightLine ==
    (slast.op = "uni2diff" /\ slast.w = 0 /\ geom.radius > 0) =>
        /\ slast.err = "none"
        /\ slast.wheels.vl = Div(Num(slast.v), Num(geom.radius))
        /\ slast.wheels.vr = Div(Num(slast.v), Num(geom.radius))

\* C9 witness: v = -1, w = 0 with R = 3 and the wheel base L = 2 gives the float of
\* -1/3 twice.
C9_Witness ==
    /\ slast.op = "uni2diff"
    /\ slast.w = 0 /\ slast.v = -1
    /\ geom.radius = 3 /\ geom.base_length = 2
    /\ slast.wheels.vl = Float(Frac(-1, 3))
    /\ slast.wheels.vr = slast.wheels.vl

\* C10: no estimate_pose, execute or uni2diff call is reached with R <= 0 or L <= 0,
\* and none raises a division by zero.
C10_GeometryChecked ==
    slast.op \in {"estimate_pose", "execute", "uni2diff"} =>
        (geom.radius > 0 /\ geom.base_length > 0 /\ slast.err # "ZeroDivisionError")

TickDifference == (ticks.right - hist.right0) - (ticks.left - hist.left0)

\* initial heading + m_per_tick * TickDifference / L, computed in floats
HeadingClosedForm ==
    Add(hist.theta0_f,
        Div(Mul(MetersPerTick(geom), Num(TickDifference)), Num(geom.base_length)))

\* C12, as claimed: with R > 0 and L > 0 and every returned pose stored, the heading
\* estimate is equal to the initial heading plus
\* m_per_tick * (right delta - left delta since construction) / L.
C12_HeadingEqualsClosedForm ==
    (geom.radius > 0 /\ geom.base_length > 0) => pose_est.theta_f = HeadingClosedForm

\* initial heading + (2*pi*R/ticks_per_rev) * TickDifference / L, without rounding
HeadingExact ==
    FracAdd(hist.theta0_f,
            Frac(2 * PiFloat.num * geom.radius * TickDifference,
                 PiFloat.den * geom.ticks_per_rev * geom.base_length))

\* x is within the rounding error of the updates that took the T ticks counted so
\* far: 2 * (T + 6) * 2^-MantissaBits * (|initial heading| + m_per_tick * T / L)
WithinHeadingRounding(x) ==
    LET T == hist.sum_dtl + hist.sum_dtr
        turned == Frac(2 * PiFloat.num * geom.radius * T,
                       PiFloat.den * geom.ticks_per_rev * geom.base_length)
        scale == FracAdd(FracAbs(hist.theta0_f), turned)
    IN FracLeq(FracAbs(FracSub(x, HeadingExact)),
               FracMul(Frac(2 * (T + 6), Pow2(MantissaBits)), scale))

\* C12: with R > 0 and L > 0 and every returned pose stored, the heading estimate is,
\* in exact arithmetic, the initial heading plus m_per_tick * (right delta - left
\* delta since construction) / L, however the ticks were split across updates and
\* without reduction modulo a full turn; the float the code computes is within
\* rounding error of it.
C12_HeadingUnwrapped ==
    (geom.radius > 0 /\ geom.base_length > 0) =>
        /\ pose_est.theta = hist.theta0 + 4 * geom.radius * TickDifference
        /\ WithinHeadingRounding(pose_est.theta_f)

\* C12 witness: two stored updates of one right tick each with R = 3, L = 1 have
\* turned the heading by three full turns, which the estimate keeps; its float is
\* not the exact sum.
C12_Witness ==
    /\ slast.op = "execute"
    /\ geom.radius = 3 /\ geom.base_length = 1
    /\ slast.dtr = 1 /\ slast.dtl = 0
    /\ hist.sum_dtr = 2 /\ hist.sum_dtl = 0
    /\ pose_est.theta = hist.theta0 + 6 * HalfTurn(geom)
    /\ pose_est.theta_f # HeadingExact

\* C13: active_left is None or a dock in docks_left, active_right is None or a dock
\* in docks_right, and every dock in docks_left or docks_right is registered in docks.
C13_DockInvariants ==
    /\ active_left = 0 \/ InList(active_left, docks_left)
    /\ active_right = 0 \/ InList(active_right, docks_right)
    /\ \A d \in 1..MaxDocks :
          (InList(d, docks_left) \/ InList(d, docks_right)) => \E n \in DockNames : docks[n] = d

====
